---- MODULE Spec2Model ----
(***************************************************************************)
(* The lock coordinator of DatabaseRepository                              *)
(* (server/src/repositories/database.repository.ts): withLock, tryLock,    *)
(* isBusy and wait, run by several server processes against one PostgreSQL *)
(* database.                                                               *)
(*                                                                         *)
(* Every process owns one AsyncLock (a keyed in-process mutex with a FIFO  *)
(* queue per key) and one connection pool.  Every pooled connection is one *)
(* database session; advisory locks are held per session, exclusively      *)
(* between sessions and re-entrantly (counted) inside one session.         *)
(*                                                                         *)
(* The catalog methods of the same class (updateVectorExtension, reindex,  *)
(* shouldReindex, runMigrations) are modelled further down, on the vector  *)
(* indexes and the extension version of that database; they have their own *)
(* specifications (SpecExt, SpecStartup), as have the lock coordinator     *)
(* under fair scheduling (LiveSpec) and with calls made from op bodies     *)
(* (SpecNested).                                                           *)
(***************************************************************************)
EXTENDS Integers, Sequences, FiniteSets, TLC

\* Server processes sharing the database, and the DatabaseLock members used.
ProcNames == <<"A", "B">>
LockNames == <<"Migrations", "CLIPDimSize">>
Procs == {ProcNames[i] : i \in DOMAIN ProcNames}
Locks == {LockNames[i] : i \in DOMAIN LockNames}

\* Calls made in a run (numbered in the order they are made), and the
\* connections in each process's pool.
NumTasks == 3
PoolSize == 2

Tasks == 1..NumTasks
Conns == 1..PoolSize
Sessions == Procs \X Conns
NoConn == 0
NoProc == "-"
NoLock == "-"

VARIABLES
    pc,       \* pc[t]: where call t stands
    op,       \* op[t]: the method called: "withLock", "tryLock" or "wait"
    proc,     \* proc[t]: the process the call is made in
    lockOf,   \* lockOf[t]: the `lock` argument of the call
    conn,     \* conn[t]: the pooled connection withLock call t runs on, or NoConn
    res,      \* res[t]: in withLock, the completion of the try block that the
              \* finally block started from
    busy,     \* busy[p][l]: asyncLock.queues[l] exists in process p
    queues,   \* queues[p][l]: the calls queued behind the holder, in order
    inUse,    \* inUse[s]: connection s is checked out of its pool
    adv,      \* adv[s][l]: how many times session s holds advisory lock l
    last,     \* what the latest return gave its caller
    awaits    \* awaits[t]: the call that the op body of withLock call t made
              \* and awaits, or NoTask

\* The database catalog and the calls of updateVectorExtension, reindex,
\* shouldReindex and runMigrations.
VARIABLES
    vectorExtension,  \* this.vectorExtension
    catalog,          \* what is committed: the extension's installed version,
                      \* the vector indexes and their columns
    tx,               \* what the open transactions have changed and not committed
    upd,              \* the call of updateVectorExtension
    rx,               \* rx[i]: the call of reindex(i)
    mig,              \* the call of runMigrations and its DataSource
    sr                \* what the latest shouldReindex call returned

lockVars == <<pc, op, proc, lockOf, conn, res, busy, queues, inUse, adv, last, awaits>>
extVars == <<vectorExtension, catalog, tx, upd, rx, mig, sr>>
vars == <<lockVars, extVars>>

NoTask == 0

Sess(t) == <<proc[t], conn[t]>>

(***************************************************************************)
(* The vector extension, its indexes and the texts the code builds and     *)
(* reads.  A text is the sequence of its words.                            *)
(***************************************************************************)

\* The DatabaseExtension members createVectorIndex knows, and VectorIndex
\* with the table each index is made on.
Extensions == {"vector", "vectorchord", "vectors"}
Indexes == {"clip_index", "face_index"}
TableOf(i) == IF i = "clip_index" THEN "smart_search" ELSE "face_search"
NoTable == "-"
NoIndex == <<>>

\* Versions x.y.z; NoVersion is the null of a missing row or column.
NoVersion == <<>>
Versions == {<<1, 0, 0>>, <<1, 0, 1>>, <<1, 1, 0>>, <<2, 0, 0>>}

\* The version a run starts with, when the extension is installed.
InstalledAtStart == <<1, 0, 0>>

\* semver.diff on two plain versions: null when they are equal, otherwise
\* the first part in which they differ.
semverDiff(v1, v2) ==
    IF v1 = v2 THEN "null"
    ELSE IF v1[1] # v2[1] THEN "major"
    ELSE IF v1[2] # v2[2] THEN "minor"
    ELSE "patch"

\* The dimension of the embedding columns the migrations make, and the
\* largest dimension getDimSize accepts.
EmbeddingDim == 512
MaxDimSize == 65536

\* A column type: vector(dim), or real[] whose atttypmod is -1.
VectorType(schema, dim) == [type |-> schema \o "vector", dim |-> dim]
RealArray == [type |-> "real[]", dim |-> -1]

\* createVectorIndex: the CREATE INDEX statement of each extension.
createVectorIndex(ext, tableName, indexName) ==
    LET head == <<"CREATE", "INDEX", "IF", "NOT", "EXISTS", indexName,
                  "ON", tableName, "USING">>
    IN CASE ext = "vectorchord" ->
              head \o <<"vchordrq", "(embedding", "vector_cosine_ops)", "WITH",
                        "(options", "residual_quantization", "[build.internal]",
                        "lists", "spherical_centroids)">>
         [] ext = "vectors" ->
              head \o <<"vectors", "(embedding", "vector_cos_ops)", "WITH",
                        "(options", "[indexing.hnsw]", "m", "ef_construction)">>
         [] ext = "vector" ->
              head \o <<"hnsw", "(embedding", "vector_cosine_ops)">>

\* pg_indexes.indexdef of an index made by a CREATE INDEX statement: the
\* statement as PostgreSQL prints it back, without IF NOT EXISTS.
IndexDef(statement) ==
    SelectSeq(statement, LAMBDA w : w \notin {"IF", "NOT", "EXISTS"})

\* String.toLowerCase, on the words that have capitals.
LowerWord(w) ==
    CASE w = "CREATE" -> "create"
      [] w = "INDEX" -> "index"
      [] w = "ON" -> "on"
      [] w = "USING" -> "using"
      [] w = "WITH" -> "with"
      [] OTHER -> w

toLowerCase(text) == [k \in DOMAIN text |-> LowerWord(text[k])]

\* String.includes: the words of part stand in text, next to each other.
includes(text, part) ==
    \E k \in 0..(Len(text) - Len(part)) :
        \A j \in DOMAIN part : text[k + j] = part[j]

\* The keyword shouldReindex looks for (its switch on this.vectorExtension).
Keyword(ext) ==
    CASE ext = "vector" -> <<"using", "hnsw">>
      [] ext = "vectorchord" -> <<"using", "vchordrq">>
      [] ext = "vectors" -> <<"using", "vectors">>

\* No open transaction has changed anything.
NoChanges ==
    [version |-> NoVersion,
     column |-> [i \in Indexes |-> RealArray],
     retyped |-> {}]

\* No call of updateVectorExtension, of reindex or of runMigrations has been
\* made.
UpdNotCalled ==
    [pc |-> "idle", result |-> "none", extension |-> "-",
     installedVersion |-> NoVersion, targetVersion |-> NoVersion,
     restartRequired |-> FALSE, issued |-> {}]
RxNotCalled ==
    [pc |-> "idle", result |-> "none", caller |-> "-", table |-> NoTable,
     dimSize |-> 0, issued |-> <<>>, calls |-> 0]

\* The index definition the migrations (or an earlier reindex) left when
\* the configured extension was made; "-": the index is missing.
MadeFor(made, i) ==
    IF made = "-" THEN NoIndex ELSE IndexDef(createVectorIndex(made, TableOf(i), i))

\* The database of a server configured for extension ext whose indexes were
\* made for the extensions madeFor, with the extension installed at version
\* installed or not installed.
Database(ext, madeFor, installed) ==
    /\ vectorExtension = ext
    /\ catalog =
         [installedVersion |-> installed,
          indexdef |-> [i \in Indexes |-> MadeFor(madeFor[i], i)],
          column |-> [i \in Indexes |-> VectorType("", EmbeddingDim)]]
    /\ tx = NoChanges
    /\ upd = UpdNotCalled
    /\ rx = [i \in Indexes |-> RxNotCalled]
    /\ mig = [pc |-> "idle", result |-> "none", open |-> FALSE]
    /\ sr = <<>>

\* The lock coordinator is looked at on its own: the database is as it is
\* before the vector indexes are made and none of the catalog methods is
\* called.
InitQuiet == Database("vector", [i \in Indexes |-> "-"], NoVersion)

\* No call of withLock, tryLock or wait has been made.
InitLocks ==
    /\ pc = [t \in Tasks |-> "idle"]
    /\ op = [t \in Tasks |-> "none"]
    /\ proc = [t \in Tasks |-> NoProc]
    /\ lockOf = [t \in Tasks |-> NoLock]
    /\ conn = [t \in Tasks |-> NoConn]
    /\ res = [t \in Tasks |-> "none"]
    /\ busy = [p \in Procs |-> [l \in Locks |-> FALSE]]
    /\ queues = [p \in Procs |-> [l \in Locks |-> <<>>]]
    /\ inUse = [s \in Sessions |-> FALSE]
    /\ adv = [s \in Sessions |-> [l \in Locks |-> 0]]
    /\ last = "none"
    /\ awaits = [t \in Tasks |-> NoTask]

Init == InitLocks /\ InitQuiet

\* Call t is the next one to be made.
NextCall(t) ==
    /\ pc[t] = "idle"
    /\ \A u \in Tasks : u < t => pc[u] # "idle"

\* The calls under way.
Active == {t \in Tasks : pc[t] \notin {"idle", "done"}}

\* A process no call is under way in and whose sessions hold nothing, and a
\* lock no call under way names and no session holds, are as they were at
\* the start.
FreshProcs ==
    {p \in Procs :
        /\ \A t \in Active : proc[t] # p
        /\ \A c \in Conns, l \in Locks : adv[<<p, c>>][l] = 0}

FreshLocks ==
    {l \in Locks :
        /\ \A t \in Active : lockOf[t] # l
        /\ \A s \in Sessions : adv[s][l] = 0}

\* Fresh processes are interchangeable, and so are fresh locks: the first
\* fresh name stands for all of them.
First(names, fresh, x) ==
    x \in fresh => \A i, j \in DOMAIN names : (i < j /\ names[j] = x) => names[i] \notin fresh

\* The caller's side of a call: which method, in which process, on which lock.
Invoke(t, kind, p, l) ==
    /\ NextCall(t)
    /\ First(ProcNames, FreshProcs, p)
    /\ First(LockNames, FreshLocks, l)
    /\ op' = [op EXCEPT ![t] = kind]
    /\ proc' = [proc EXCEPT ![t] = p]
    /\ lockOf' = [lockOf EXCEPT ![t] = l]

\* isBusy(lock): asyncLock.isBusy(key), i.e. whether queues[key] exists.
isBusy(p, l) == busy[p][l]

\* Another session than s holds advisory lock l.
HeldElsewhere(s, l) == \E o \in Sessions : o # s /\ adv[o][l] > 0

\* Where the function handed to asyncLock.acquire stands once exec runs it:
\* withLock's asks for a connection, wait's empty one has already finished.
Started(kind) == IF kind = "withLock" THEN "conn" ELSE "settle"

\* Mutant of Acquire: the function is run at once, whoever holds the key.
AcquireUnlocked(t, kind, p, l) ==
    /\ Invoke(t, kind, p, l)
    /\ busy' = [busy EXCEPT ![p][l] = TRUE]
    /\ pc' = [pc EXCEPT ![t] = Started(kind)]
    /\ UNCHANGED <<queues, conn, res, inUse, adv, last, extVars>>

\* asyncLock.acquire(key, fn): run fn at once when the key has no queue,
\* otherwise push it behind the others.
Acquire(t, kind, p, l) ==
    /\ Invoke(t, kind, p, l)
    /\ IF ~busy[p][l]
         THEN /\ busy' = [busy EXCEPT ![p][l] = TRUE]
              /\ pc' = [pc EXCEPT ![t] = Started(kind)]
              /\ UNCHANGED queues
         ELSE /\ queues' = [queues EXCEPT ![p][l] = Append(@, t)]
              /\ pc' = [pc EXCEPT ![t] = "queued"]
              /\ UNCHANGED busy
    /\ UNCHANGED <<conn, res, inUse, adv, last, extVars>>

withLock(t, p, l) == Acquire(t, "withLock", p, l) /\ UNCHANGED awaits

\* Mutant of wait: it returns in its own time, without queueing for the key.
waitEager(t, p, l) ==
    /\ Invoke(t, "wait", p, l)
    /\ busy' = [busy EXCEPT ![p][l] = TRUE]
    /\ pc' = [pc EXCEPT ![t] = "settle"]
    /\ UNCHANGED <<queues, conn, res, inUse, adv, last, awaits, extVars>>

wait(t, p, l) == Acquire(t, "wait", p, l) /\ UNCHANGED awaits

\* tryLock(lock): asks the pool for a connection; no in-process mutex.
tryLock(t, p, l) ==
    /\ Invoke(t, "tryLock", p, l)
    /\ pc' = [pc EXCEPT ![t] = "conn"]
    /\ UNCHANGED <<conn, res, busy, queues, inUse, adv, last, awaits, extVars>>

\* The connections the pool of p can hand out.  Idle connections whose
\* sessions hold the same advisory locks are interchangeable: the one with
\* the lowest number stands for them.
Idle(p) ==
    {c \in Conns :
        /\ ~inUse[<<p, c>>]
        /\ \A d \in Conns : (d < c /\ ~inUse[<<p, d>>]) => adv[<<p, d>>] # adv[<<p, c>>]}

\* db.connection().execute(...) in withLock: an idle connection of the pool
\* is checked out and the acquire statement is sent on it.
Connection(t) ==
    /\ pc[t] = "conn"
    /\ op[t] = "withLock"
    /\ \E c \in Idle(proc[t]) :
         /\ inUse' = [inUse EXCEPT ![<<proc[t], c>>] = TRUE]
         /\ conn' = [conn EXCEPT ![t] = c]
    /\ pc' = [pc EXCEPT ![t] = "acquire"]
    /\ UNCHANGED <<op, proc, lockOf, res, busy, queues, adv, last, awaits, extVars>>

\* Mutant of acquireLock: the non-blocking statement is sent and its answer
\* is not looked at.
acquireLockUnchecked(t) ==
    /\ pc[t] = "acquire"
    /\ IF HeldElsewhere(Sess(t), lockOf[t])
         THEN UNCHANGED adv
         ELSE adv' = [adv EXCEPT ![Sess(t)][lockOf[t]] = @ + 1]
    /\ pc' = [pc EXCEPT ![t] = "body"]
    /\ UNCHANGED <<op, proc, lockOf, conn, res, busy, queues, inUse, last, awaits, extVars>>

\* acquireLock: SELECT pg_advisory_lock(lock) returns once no other session
\* holds the lock; the session's hold count goes up and the callback starts.
acquireLock(t) ==
    /\ pc[t] = "acquire"
    /\ ~HeldElsewhere(Sess(t), lockOf[t])
    /\ adv' = [adv EXCEPT ![Sess(t)][lockOf[t]] = @ + 1]
    /\ pc' = [pc EXCEPT ![t] = "body"]
    /\ UNCHANGED <<op, proc, lockOf, conn, res, busy, queues, inUse, last, awaits, extVars>>

\* The connection of call t goes back to its pool (used by the mutant below).
ReleaseConnectionEarly(t) ==
    /\ inUse' = [inUse EXCEPT ![<<proc[t], conn[t]>>] = FALSE]
    /\ conn' = [conn EXCEPT ![t] = NoConn]

\* Mutant of acquireLockFails: no finally block, the error leaves withLock
\* without a release being sent.
acquireLockFailsNoFinally(t) ==
    /\ pc[t] = "acquire"
    /\ ReleaseConnectionEarly(t)
    /\ pc' = [pc EXCEPT ![t] = "done"]
    /\ last' = "acquireError"
    /\ UNCHANGED <<op, proc, lockOf, res, busy, queues, adv, awaits, extVars>>

\* acquireLock raises (the statement fails): the callback is skipped and the
\* finally block sends the release.
acquireLockFails(t) ==
    /\ pc[t] = "acquire"
    /\ res' = [res EXCEPT ![t] = "acquireError"]
    /\ pc' = [pc EXCEPT ![t] = "release"]
    /\ UNCHANGED <<op, proc, lockOf, conn, busy, queues, inUse, adv, last, awaits, extVars>>

\* The op body of call t awaits a call it made that has not returned.
Awaiting(t) == awaits[t] # NoTask /\ pc[awaits[t]] # "done"

\* res = await callback(): the callback, every call it awaited having
\* returned, returns a value or raises; either way the finally block sends
\* the release.
callback(t) ==
    /\ pc[t] = "body"
    /\ ~Awaiting(t)
    /\ awaits' = [awaits EXCEPT ![t] = NoTask]
    /\ \E outcome \in {"value", "opError"} : res' = [res EXCEPT ![t] = outcome]
    /\ pc' = [pc EXCEPT ![t] = "release"]
    /\ UNCHANGED <<op, proc, lockOf, conn, busy, queues, inUse, adv, last, extVars>>

\* pg_advisory_unlock(lock) on a session: one hold less, nothing when the
\* session holds none.
Unlocked(n) == IF n > 0 THEN n - 1 ELSE 0

\* Mutant of Done: the call queued last is started instead of the first.
DoneLast(t) ==
    LET p == proc[t]
        l == lockOf[t]
        q == queues[p][l]
    IN IF q = <<>>
         THEN /\ busy' = [busy EXCEPT ![p][l] = FALSE]
              /\ pc' = [pc EXCEPT ![t] = "done"]
              /\ UNCHANGED queues
         ELSE /\ queues' = [queues EXCEPT ![p][l] = SubSeq(q, 1, Len(q) - 1)]
              /\ pc' = [pc EXCEPT ![t] = "done", ![q[Len(q)]] = Started(op[q[Len(q)]])]
              /\ UNCHANGED busy

\* Mutant of Done: the key's queue is never dropped.
DoneKeepsKey(t) ==
    LET p == proc[t]
        l == lockOf[t]
        q == queues[p][l]
    IN IF q = <<>>
         THEN /\ pc' = [pc EXCEPT ![t] = "done"]
              /\ UNCHANGED <<busy, queues>>
         ELSE /\ queues' = [queues EXCEPT ![p][l] = Tail(q)]
              /\ pc' = [pc EXCEPT ![t] = "done", ![Head(q)] = Started(op[Head(q)])]
              /\ UNCHANGED busy

\* asyncLock's done(): drop the key's queue when nobody waits, settle the
\* caller's promise, then start the first waiting call.
Done(t) ==
    LET p == proc[t]
        l == lockOf[t]
        q == queues[p][l]
    IN IF q = <<>>
         THEN /\ busy' = [busy EXCEPT ![p][l] = FALSE]
              /\ pc' = [pc EXCEPT ![t] = "done"]
              /\ UNCHANGED queues
         ELSE /\ queues' = [queues EXCEPT ![p][l] = Tail(q)]
              /\ pc' = [pc EXCEPT ![t] = "done", ![Head(q)] = Started(op[Head(q)])]
              /\ UNCHANGED busy

\* The end of connection().execute: the connection goes back to the pool.
ReleaseConnection(t) ==
    /\ inUse' = [inUse EXCEPT ![Sess(t)] = FALSE]
    /\ conn' = [conn EXCEPT ![t] = NoConn]

\* The call returns r (a value or an error) to its caller.
Return(t, r) ==
    /\ last' = r
    /\ op' = [op EXCEPT ![t] = "none"]
    /\ proc' = [proc EXCEPT ![t] = NoProc]
    /\ lockOf' = [lockOf EXCEPT ![t] = NoLock]
    /\ res' = [res EXCEPT ![t] = "none"]

\* releaseLock in the finally block answers: the completion of the try block
\* stands, the connection is returned and the in-process mutex is released.
releaseLock(t) ==
    /\ pc[t] = "release"
    /\ adv' = [adv EXCEPT ![Sess(t)][lockOf[t]] = Unlocked(@)]
    /\ ReleaseConnection(t)
    /\ Done(t)
    /\ Return(t, res[t])
    /\ UNCHANGED <<awaits, extVars>>

\* releaseLock raises inside the finally block: its error becomes the
\* completion of the whole try statement; the connection is returned and
\* the in-process mutex is released all the same.
releaseLockFails(t) ==
    /\ pc[t] = "release"
    /\ ReleaseConnection(t)
    /\ Done(t)
    /\ Return(t, "releaseError")
    /\ UNCHANGED <<adv, awaits, extVars>>

\* What pg_try_advisory_lock(l) answers on session s.
TryAnswer(s, l) == IF HeldElsewhere(s, l) THEN "false" ELSE "true"

\* tryLock's connection().execute(acquireTryLock): on an idle connection of
\* the pool SELECT pg_try_advisory_lock(lock) answers at once, taking the
\* lock for the session when no other session holds it; the connection goes
\* back to the pool and tryLock returns the answer.
acquireTryLock(t) ==
    /\ pc[t] = "conn"
    /\ op[t] = "tryLock"
    /\ \E c \in Idle(proc[t]) :
         LET s == <<proc[t], c>>
         IN /\ Return(t, TryAnswer(s, lockOf[t]))
            /\ IF TryAnswer(s, lockOf[t]) = "true"
                 THEN adv' = [adv EXCEPT ![s][lockOf[t]] = @ + 1]
                 ELSE UNCHANGED adv
    /\ pc' = [pc EXCEPT ![t] = "done"]
    /\ UNCHANGED <<conn, busy, queues, inUse, awaits, extVars>>

\* wait's empty function has run: asyncLock's done() for it.
waitReturns(t) ==
    /\ pc[t] = "settle"
    /\ Done(t)
    /\ Return(t, "returned")
    /\ UNCHANGED <<conn, inUse, adv, awaits, extVars>>

Next ==
    \/ \E t \in Tasks, p \in Procs, l \in Locks : withLock(t, p, l)
    \/ \E t \in Tasks, p \in Procs, l \in Locks : tryLock(t, p, l)
    \/ \E t \in Tasks, p \in Procs, l \in Locks : wait(t, p, l)
    \/ \E t \in Tasks : Connection(t)
    \/ \E t \in Tasks : acquireLock(t)
    \/ \E t \in Tasks : acquireLockFails(t)
    \/ \E t \in Tasks : callback(t)
    \/ \E t \in Tasks : releaseLock(t)
    \/ \E t \in Tasks : releaseLockFails(t)
    \/ \E t \in Tasks : acquireTryLock(t)
    \/ \E t \in Tasks : waitReturns(t)

Spec == Init /\ [][Next]_vars

\* The runs in which every database statement goes through: Next without the
\* two failing statements.
NextCompletes ==
    \/ \E t \in Tasks, p \in Procs, l \in Locks : withLock(t, p, l)
    \/ \E t \in Tasks, p \in Procs, l \in Locks : tryLock(t, p, l)
    \/ \E t \in Tasks, p \in Procs, l \in Locks : wait(t, p, l)
    \/ \E t \in Tasks : Connection(t)
    \/ \E t \in Tasks : acquireLock(t)
    \/ \E t \in Tasks : callback(t)
    \/ \E t \in Tasks : releaseLock(t)
    \/ \E t \in Tasks : acquireTryLock(t)
    \/ \E t \in Tasks : waitReturns(t)

\* Scheduling.  The event loop runs every continuation that is ready, op
\* terminates and a statement that can be answered is answered (weak
\* fairness); the pool hands connections to its waiters in turn and
\* PostgreSQL grants a lock to its waiters in turn, so a call that could be
\* served again and again is served (strong fairness).  Nothing obliges a
\* caller to make a call.
Fairness ==
    \A t \in Tasks :
        /\ SF_vars(Connection(t))
        /\ SF_vars(acquireLock(t))
        /\ SF_vars(acquireTryLock(t))
        /\ WF_vars(callback(t))
        /\ WF_vars(releaseLock(t))
        /\ WF_vars(waitReturns(t))

LiveSpec == Init /\ [][NextCompletes]_vars /\ Fairness

\* The op body of withLock call t calls withLock or wait on lock l in its own
\* process (call u) and awaits it.
callbackCalls(t, u, kind, l) ==
    /\ pc[t] = "body"
    /\ awaits[t] = NoTask
    /\ Acquire(u, kind, proc[t], l)
    /\ awaits' = [awaits EXCEPT ![t] = u]

\* The runs in which op bodies may make such calls.
NextNested ==
    \/ Next
    \/ \E t, u \in Tasks, kind \in {"withLock", "wait"}, l \in Locks :
          callbackCalls(t, u, kind, l)

SpecNested == Init /\ [][NextNested]_vars

(***************************************************************************)
(* updateVectorExtension, reindex, shouldReindex and runMigrations on the  *)
(* catalog.  Every transaction works on its own connection: what it has    *)
(* changed is in tx until it commits, and is dropped when it rolls back.   *)
(***************************************************************************)

\* Calls of reindex made on one index in a run, and names in one
\* shouldReindex call.
MaxReindex == 2
MaxNames == 2

InitExt ==
    /\ InitLocks
    /\ \E ext \in Extensions, made \in Extensions, installed \in {NoVersion, InstalledAtStart} :
          Database(ext, [i \in Indexes |-> made], installed)

\* updateVectorExtension has raised.
Raised == [UpdNotCalled EXCEPT !.pc = "done", !.result = "error"]

\* Mutant of updateVectorExtension: the available version is not looked at.
updateVectorExtensionUnchecked(extension, availableVersion, targetVersion) ==
    /\ upd.pc = "idle"
    /\ \A i \in Indexes : rx[i].pc \in {"idle", "done"}
    /\ IF catalog.installedVersion = NoVersion
         THEN upd' = Raised
         ELSE upd' = [upd EXCEPT !.pc = "alter", !.extension = extension,
                                 !.installedVersion = catalog.installedVersion,
                                 !.targetVersion = targetVersion]
    /\ UNCHANGED <<lockVars, vectorExtension, catalog, tx, rx, mig, sr>>

\* updateVectorExtension(extension, targetVersion) up to the transaction:
\* getExtensionVersion reads the installed version and the one the server
\* offers (availableVersion), the call raises when either is missing, and a
\* target that was not given (NoVersion) becomes the available version.
updateVectorExtension(extension, availableVersion, targetVersion) ==
    /\ upd.pc = "idle"
    /\ \A i \in Indexes : rx[i].pc \in {"idle", "done"}
    /\ LET installedVersion == catalog.installedVersion
           target == IF targetVersion = NoVersion THEN availableVersion ELSE targetVersion
       IN IF installedVersion = NoVersion \/ availableVersion = NoVersion
            THEN upd' = Raised
            ELSE upd' = [upd EXCEPT !.pc = "alter", !.extension = extension,
                                    !.installedVersion = installedVersion,
                                    !.targetVersion = target]
    /\ UNCHANGED <<lockVars, vectorExtension, catalog, tx, rx, mig, sr>>

\* The call of reindex(index) by caller: it logs and asks for the table.
Called(r, caller) ==
    [RxNotCalled EXCEPT !.pc = "table", !.caller = caller, !.calls = r.calls + 1]

\* Mutant of alterExtension: the upgrade routine whenever the versions differ.
alterExtensionAnyDiff ==
    /\ upd.pc = "alter"
    /\ tx' = [tx EXCEPT !.version = upd.targetVersion]
    /\ IF upd.extension = "vectors" /\ semverDiff(upd.installedVersion, upd.targetVersion) # "null"
         THEN /\ upd' = [upd EXCEPT !.pc = "upgrade", !.issued = @ \cup {"ALTER EXTENSION"}]
              /\ UNCHANGED rx
         ELSE /\ upd' = [upd EXCEPT !.pc = "await",
                                    !.issued = @ \cup {"ALTER EXTENSION"} \cup Indexes]
              /\ rx' = [i \in Indexes |-> Called(rx[i], "update")]
    /\ UNCHANGED <<lockVars, vectorExtension, catalog, mig, sr>>

\* The transaction of updateVectorExtension begins, setSearchPath and ALTER
\* EXTENSION ... UPDATE TO target go through, and the call takes its branch:
\* pgvectors_upgrade for the vectors extension on a minor or major
\* difference, otherwise Promise.all of the two reindex calls, which are
\* both made at once.
alterExtension ==
    /\ upd.pc = "alter"
    /\ tx' = [tx EXCEPT !.version = upd.targetVersion]
    /\ LET diff == semverDiff(upd.installedVersion, upd.targetVersion)
           isVectors == upd.extension = "vectors"
       IN IF isVectors /\ diff \in {"minor", "major"}
            THEN /\ upd' = [upd EXCEPT !.pc = "upgrade",
                                       !.issued = @ \cup {"ALTER EXTENSION"}]
                 /\ UNCHANGED rx
            ELSE /\ upd' = [upd EXCEPT !.pc = "await",
                                       !.issued = @ \cup {"ALTER EXTENSION"} \cup Indexes]
                 /\ rx' = [i \in Indexes |-> Called(rx[i], "update")]
    /\ UNCHANGED <<lockVars, vectorExtension, catalog, mig, sr>>

\* The transaction of updateVectorExtension rolls back and the call raises.
Rollback ==
    /\ tx' = [tx EXCEPT !.version = NoVersion]
    /\ UNCHANGED <<lockVars, vectorExtension, catalog, rx, mig, sr>>

\* ALTER EXTENSION fails.
alterExtensionFails ==
    /\ upd.pc = "alter"
    /\ upd' = Raised
    /\ Rollback

\* The transaction of updateVectorExtension commits and the call returns
\* { restartRequired }.
Commit(restartRequired) ==
    /\ catalog' = [catalog EXCEPT !.installedVersion = tx.version]
    /\ tx' = [tx EXCEPT !.version = NoVersion]
    /\ upd' = [UpdNotCalled EXCEPT !.pc = "done", !.result = "returned",
                                   !.restartRequired = restartRequired]
    /\ UNCHANGED <<lockVars, vectorExtension, rx, mig, sr>>

\* SELECT pgvectors_upgrade() goes through.
upgrade ==
    /\ upd.pc = "upgrade"
    /\ Commit(TRUE)

\* SELECT pgvectors_upgrade() fails.
upgradeFails ==
    /\ upd.pc = "upgrade"
    /\ upd' = Raised
    /\ Rollback

\* A reindex call that updateVectorExtension made has settled with result r.
Settled(i, r) == rx[i].caller = "update" /\ rx[i].pc = "done" /\ rx[i].result = r

\* Promise.all resolves: both reindex calls have returned.
reindexedAll ==
    /\ upd.pc = "await"
    /\ \A i \in Indexes : Settled(i, "returned")
    /\ Commit(FALSE)

\* Promise.all rejects as soon as one reindex call has raised, whatever the
\* other one is doing.
reindexRejected ==
    /\ upd.pc = "await"
    /\ \E i \in Indexes : Settled(i, "error")
    /\ upd' = Raised
    /\ Rollback

\* reindex(index) called by a caller of the repository.
reindex(i) ==
    /\ upd.pc \in {"idle", "done"}
    /\ rx[i].pc \in {"idle", "done"}
    /\ rx[i].calls < MaxReindex
    /\ rx' = [rx EXCEPT ![i] = Called(rx[i], "caller")]
    /\ UNCHANGED <<lockVars, vectorExtension, catalog, tx, upd, mig, sr>>

\* Call r of reindex ends: it returns or raises.
Ends(r, result) ==
    [r EXCEPT !.pc = "done", !.result = result, !.table = NoTable, !.dimSize = 0]

\* isValidInteger(dimSize, { min: 1, max: 2 ** 16 })
isValidInteger(n) == n \in 1..MaxDimSize

\* Mutant of getIndexTable: reindex raises when it finds no table.
getIndexTableStrict(i) ==
    /\ rx[i].pc = "table"
    /\ rx' = [rx EXCEPT ![i] =
                 IF catalog.indexdef[i] = NoIndex THEN Ends(@, "error")
                 ELSE [@ EXCEPT !.pc = "drop", !.table = TableOf(i),
                                !.dimSize = catalog.column[i].dim]]
    /\ UNCHANGED <<lockVars, vectorExtension, catalog, tx, upd, mig, sr>>

\* getIndexTable(index) reads pg_stat_all_indexes, which has a row for the
\* indexes that exist; without a table reindex warns and returns.  With one,
\* getDimSize(table) reads the column's atttypmod and raises unless it is a
\* valid dimension.
getIndexTable(i) ==
    /\ rx[i].pc = "table"
    /\ LET table == IF catalog.indexdef[i] # NoIndex THEN TableOf(i) ELSE NoTable
           dimSize == catalog.column[i].dim
       IN rx' = [rx EXCEPT ![i] =
                    IF table = NoTable THEN Ends(@, "returned")
                    ELSE IF ~isValidInteger(dimSize) THEN Ends(@, "error")
                    ELSE [@ EXCEPT !.pc = "drop", !.table = table, !.dimSize = dimSize]]
    /\ UNCHANGED <<lockVars, vectorExtension, catalog, tx, upd, mig, sr>>

\* Mutant of dropIndex: the index is dropped in the transaction, so that
\* nothing is seen of the drop before the commit.
dropIndexInTransaction(i) ==
    /\ rx[i].pc = "drop"
    /\ rx' = [rx EXCEPT ![i].pc = "widen", ![i].issued = Append(@, "drop")]
    /\ UNCHANGED <<lockVars, vectorExtension, catalog, tx, upd, mig, sr>>

\* The transaction of reindex begins and DROP INDEX IF EXISTS goes through,
\* on this.db: it is committed at once, on a connection of its own.
dropIndex(i) ==
    /\ rx[i].pc = "drop"
    /\ catalog' = [catalog EXCEPT !.indexdef[i] = NoIndex]
    /\ rx' = [rx EXCEPT ![i].pc = "widen", ![i].issued = Append(@, "drop")]
    /\ UNCHANGED <<lockVars, vectorExtension, tx, upd, mig, sr>>

\* ALTER TABLE ... SET DATA TYPE real[] goes through, in the transaction.
widen(i) ==
    /\ rx[i].pc = "widen"
    /\ tx' = [tx EXCEPT !.column[i] = RealArray, !.retyped = @ \cup {i}]
    /\ rx' = [rx EXCEPT ![i].pc = "narrow", ![i].issued = Append(@, "widen")]
    /\ UNCHANGED <<lockVars, vectorExtension, catalog, upd, mig, sr>>

\* ALTER TABLE ... SET DATA TYPE [vectors.]vector(dimSize) goes through, in
\* the transaction.
narrow(i) ==
    /\ rx[i].pc = "narrow"
    /\ LET schema == IF vectorExtension = "vectors" THEN "vectors." ELSE ""
       IN tx' = [tx EXCEPT !.column[i] = VectorType(schema, rx[i].dimSize)]
    /\ rx' = [rx EXCEPT ![i].pc = "create", ![i].issued = Append(@, "narrow")]
    /\ UNCHANGED <<lockVars, vectorExtension, catalog, upd, mig, sr>>

\* What the transaction of reindex(i) has changed is dropped.
Forget(i) ==
    [tx EXCEPT !.column[i] = RealArray, !.retyped = @ \ {i}]

\* The statement made by createVectorIndex goes through, in the transaction;
\* the transaction commits and reindex returns.
createIndex(i) ==
    /\ rx[i].pc = "create"
    /\ LET statement == createVectorIndex(vectorExtension, rx[i].table, i)
       IN catalog' = [catalog EXCEPT !.column[i] = tx.column[i],
                                     !.indexdef[i] = IndexDef(statement)]
    /\ tx' = Forget(i)
    /\ rx' = [rx EXCEPT ![i] = Ends([@ EXCEPT !.issued = Append(@, "create")], "returned")]
    /\ UNCHANGED <<lockVars, vectorExtension, upd, mig, sr>>

\* The statement reindex(i) has come to fails: the transaction rolls back
\* and reindex raises.
statementFails(i) ==
    /\ rx[i].pc \in {"drop", "widen", "narrow", "create"}
    /\ tx' = Forget(i)
    /\ rx' = [rx EXCEPT ![i] = Ends([@ EXCEPT !.issued = Append(@, rx[i].pc)], "error")]
    /\ UNCHANGED <<lockVars, vectorExtension, catalog, upd, mig, sr>>

\* The requests shouldReindex is given: up to MaxNames index names.
NameLists == UNION {[1..n -> Indexes] : n \in 1..MaxNames}

\* Mutant of Answer: the definition is searched as PostgreSQL printed it.
AnswerCaseSensitive(names) ==
    LET rows == {i \in Indexes : catalog.indexdef[i] # NoIndex /\ \E k \in DOMAIN names : names[k] = i}
        keyword == Keyword(vectorExtension)
    IN [k \in DOMAIN names |->
           ~(names[k] \in rows /\ includes(catalog.indexdef[names[k]], keyword))]

\* What shouldReindex(names) returns: rows are the pg_indexes rows of the
\* names asked for (an index that does not exist has none), and each name
\* maps to !rows.find(...)?.indexdef.toLowerCase().includes(keyword).
Answer(names) ==
    LET rows == {i \in Indexes : catalog.indexdef[i] # NoIndex /\ \E k \in DOMAIN names : names[k] = i}
        keyword == Keyword(vectorExtension)
    IN [k \in DOMAIN names |->
           ~(names[k] \in rows /\ includes(toLowerCase(catalog.indexdef[names[k]]), keyword))]

shouldReindex(names) ==
    /\ sr' = Answer(names)
    /\ UNCHANGED <<lockVars, vectorExtension, catalog, tx, upd, rx, mig>>

\* runMigrations: new DataSource(...).
runMigrations ==
    /\ mig.pc = "idle"
    /\ mig' = [mig EXCEPT !.pc = "initialize"]
    /\ UNCHANGED <<lockVars, vectorExtension, catalog, tx, upd, rx, sr>>

\* dataSource.initialize() connects.
initialize ==
    /\ mig.pc = "initialize"
    /\ mig' = [mig EXCEPT !.pc = "migrate", !.open = TRUE]
    /\ UNCHANGED <<lockVars, vectorExtension, catalog, tx, upd, rx, sr>>

\* dataSource.initialize() raises, leaving no connection behind (it closes
\* what it had opened), and runMigrations raises with it.
initializeFails ==
    /\ mig.pc = "initialize"
    /\ mig' = [mig EXCEPT !.pc = "done", !.result = "error"]
    /\ UNCHANGED <<lockVars, vectorExtension, catalog, tx, upd, rx, sr>>

\* dataSource.runMigrations(options) applies the migrations.
migrate ==
    /\ mig.pc = "migrate"
    /\ mig' = [mig EXCEPT !.pc = "destroy"]
    /\ UNCHANGED <<lockVars, vectorExtension, catalog, tx, upd, rx, sr>>

\* dataSource.runMigrations(options) raises, and runMigrations raises with
\* it.
migrateFails ==
    /\ mig.pc = "migrate"
    /\ mig' = [mig EXCEPT !.pc = "done", !.result = "error"]
    /\ UNCHANGED <<lockVars, vectorExtension, catalog, tx, upd, rx, sr>>

\* dataSource.destroy() closes the connection and runMigrations returns.
destroy ==
    /\ mig.pc = "destroy"
    /\ mig' = [mig EXCEPT !.pc = "done", !.result = "returned", !.open = FALSE]
    /\ UNCHANGED <<lockVars, vectorExtension, catalog, tx, upd, rx, sr>>

NextExt ==
    \/ \E extension \in Extensions, availableVersion \in Versions \cup {NoVersion},
          targetVersion \in Versions \cup {NoVersion} :
            updateVectorExtension(extension, availableVersion, targetVersion)
    \/ alterExtension
    \/ alterExtensionFails
    \/ upgrade
    \/ upgradeFails
    \/ reindexedAll
    \/ reindexRejected
    \/ \E i \in Indexes : reindex(i)
    \/ \E i \in Indexes : getIndexTable(i)
    \/ \E i \in Indexes : dropIndex(i)
    \/ \E i \in Indexes : widen(i)
    \/ \E i \in Indexes : narrow(i)
    \/ \E i \in Indexes : createIndex(i)
    \/ \E i \in Indexes : statementFails(i)

SpecExt == InitExt /\ [][NextExt]_vars

\* The start of a server: runMigrations, and shouldReindex on the indexes it
\* finds, which were made for any of the extensions or are missing.
InitStartup ==
    /\ InitLocks
    /\ \E ext \in Extensions, madeFor \in [Indexes -> Extensions \cup {"-"}] :
          Database(ext, madeFor, InstalledAtStart)

NextStartup ==
    \/ \E names \in NameLists : shouldReindex(names)
    \/ runMigrations
    \/ initialize
    \/ initializeFails
    \/ migrate
    \/ migrateFails
    \/ destroy

SpecStartup == InitStartup /\ [][NextStartup]_vars


(***************************************************************************)
(* Properties                                                              *)
(***************************************************************************)

WithLocks == {t \in Tasks : op[t] = "withLock"}

\* Call t runs the function it handed to asyncLock.acquire, i.e. it holds
\* the in-process mutex of its lock.
HoldsMutex(t) ==
    \/ op[t] = "withLock" /\ pc[t] \in {"conn", "acquire", "body", "release"}
    \/ op[t] = "wait" /\ pc[t] = "settle"

\* Calls t and u are about the same lock in the same process.
SameKey(t, u) == proc[t] = proc[u] /\ lockOf[t] = lockOf[u]

\* A withLock on lock l other than call t, in any process, has been called
\* and has not returned.
OtherWithLockActive(t, l) == \E u \in WithLocks \ {t} : lockOf[u] = l

\* withLock call t returns in this step.
WithLockReturns(t) == op[t] = "withLock" /\ pc[t] = "release" /\ pc'[t] = "done"

\* withLock call t returns in this step, after op ran (and returned or
\* raised) and the release statement went through.
WithLockCompletes(t) ==
    WithLockReturns(t) /\ res[t] \in {"value", "opError"} /\ last' = res[t]

\* C1: within one process, two withLock calls on the same lock are never both
\* between taking and releasing the in-process mutex, so their op bodies
\* never overlap; calls on different locks are not kept apart (the witness).
C1_SameLockBodiesNeverOverlap ==
    \A t, u \in WithLocks :
        (t # u /\ SameKey(t, u)) => ~(HoldsMutex(t) /\ HoldsMutex(u))

C1_DifferentLocksOverlap ==
    \E t, u, v \in WithLocks :
        /\ proc[t] = proc[u] /\ lockOf[t] # lockOf[u]
        /\ pc[t] = "body" /\ pc[u] = "body"
        /\ v # t /\ SameKey(t, v) /\ pc[v] = "queued"

\* C2: over all processes at most one op body runs per lock; a body runs only
\* while its own session holds the advisory lock, and no two sessions hold
\* the same advisory lock.
C2_OneBodyPerLockAcrossProcesses ==
    /\ \A t, u \in WithLocks :
         (t # u /\ pc[t] = "body" /\ pc[u] = "body") => lockOf[t] # lockOf[u]
    /\ \A t \in WithLocks : pc[t] = "body" => adv[Sess(t)][lockOf[t]] > 0
    /\ \A l \in Locks, r, s \in Sessions : (adv[r][l] > 0 /\ adv[s][l] > 0) => r = s

C2_OtherProcessBlocked ==
    \E t, u \in WithLocks :
        /\ proc[t] # proc[u] /\ lockOf[t] = lockOf[u]
        /\ pc[t] = "body" /\ pc[u] = "acquire"

\* C3: when a withLock on lock l returns, whatever op did, the in-process
\* mutex of l is free unless a queued call took it over, and, unless another
\* withLock on l is under way, no session holds advisory lock l, so that a
\* tryLock on l issued next answers true on whichever connection it runs.
\* Stated for the calls whose acquire and release statements went through:
\* a release that failed has released nothing.
C3_ReleasedAfterReturn ==
    [][\A t \in Tasks :
          WithLockCompletes(t) =>
              /\ queues[proc[t]][lockOf[t]] = <<>> => ~busy'[proc[t]][lockOf[t]]
              /\ ~OtherWithLockActive(t, lockOf[t]) =>
                     \A s \in Sessions : adv'[s][lockOf[t]] = 0]_vars

\* C4: when op raised, withLock raises op's failure, also when the release
\* statement fails; when op returned and the release went through, withLock
\* returns op's value.
C4_OpFailureReachesCaller ==
    [][\A t \in Tasks :
          WithLockReturns(t) =>
              /\ res[t] = "opError" => last' = "opError"
              /\ (res[t] = "value" /\ last' # "releaseError") => last' = "value"]_vars

\* C5: tryLock is a probe: answering, true or false, it leaves no session
\* holding an advisory lock it did not hold before.
C5_TryLockHoldsNothing ==
    [][\A t \in Tasks : acquireTryLock(t) => adv' = adv]_vars

\* C6: a tryLock answered while another process runs the op body of a
\* withLock on the same lock answers false; and a tryLock of another process
\* that is answered right after that withLock returned (its release
\* statement having gone through), no other withLock on the lock being
\* under way, answers true.
C6_TryLockFollowsWithLock ==
    [][\A b \in Tasks :
          /\ (/\ acquireTryLock(b)
              /\ \E a \in WithLocks :
                    proc[a] # proc[b] /\ lockOf[a] = lockOf[b] /\ pc[a] = "body")
                => last' = "false"
          /\ \A a \in Tasks :
                (/\ WithLockCompletes(a)
                 /\ op[b] = "tryLock" /\ pc[b] = "conn"
                 /\ proc[b] # proc[a] /\ lockOf[b] = lockOf[a]
                 /\ ~OtherWithLockActive(a, lockOf[a]))
                => \A c \in Conns : TryAnswer(<<proc[b], c>>, lockOf[b])' = "true"]_vars

\* C7 as claimed: isBusy(l) is true exactly while an op body of a withLock on
\* l of the same process is running.
C7_BusyIffBodyRuns ==
    \A p \in Procs, l \in Locks :
        isBusy(p, l) <=>
            \E t \in WithLocks : proc[t] = p /\ lockOf[t] = l /\ pc[t] = "body"

\* C7 as amended: isBusy(l) is true exactly while some call of the same
\* process holds the in-process mutex of l: a withLock from the moment it is
\* let in (waiting for its connection, waiting for the advisory lock, running
\* op, releasing) or a wait in its turn; calls of other processes do not count.
C7_BusyIffMutexHeld ==
    \A p \in Procs, l \in Locks :
        isBusy(p, l) <=>
            \E t \in Tasks : proc[t] = p /\ lockOf[t] = l /\ HoldsMutex(t)

C7_BusyWhileBlockedOnAdvisoryLock ==
    \E t, u \in WithLocks :
        /\ proc[t] # proc[u] /\ lockOf[t] = lockOf[u]
        /\ pc[t] = "body" /\ pc[u] = "acquire"
        /\ isBusy(proc[u], lockOf[u])
        /\ \A v \in WithLocks : proc[v] = proc[u] => pc[v] # "body"

\* C8 as claimed: a wait call never takes the in-process mutex: calling it
\* leaves isBusy as it was, and it never stands where a holder stands.
C8_WaitAcquiresNothing ==
    [][\A t \in Tasks, p \in Procs, l \in Locks :
          wait(t, p, l) => (isBusy(p, l)' = isBusy(p, l) /\ ~HoldsMutex(t)')]_vars

\* C8 as amended: wait takes its turn on the in-process mutex like any other
\* call: it is let in only when no other call of the process holds the mutex
\* of the lock, isBusy is true during its turn, and no step of a wait call
\* changes an advisory lock or a connection.
C8_WaitTakesItsTurnOnly ==
    [][\A t \in Tasks :
          /\ (op[t]' = "wait" /\ HoldsMutex(t)') =>
                /\ isBusy(proc[t], lockOf[t])'
                /\ \A u \in Tasks \ {t} : SameKey(t, u)' => ~HoldsMutex(u)'
          /\ ((\E p \in Procs, l \in Locks : wait(t, p, l)) \/ waitReturns(t)) =>
                UNCHANGED <<adv, inUse, conn>>]_vars

C8_WaitHoldsWithOneQueuedBehind ==
    \E t, u \in Tasks :
        /\ op[t] = "wait" /\ pc[t] = "settle"
        /\ op[u] = "withLock" /\ pc[u] = "queued" /\ SameKey(t, u)
        /\ isBusy(proc[t], lockOf[t])

\* C9: no connection that is back in its pool holds an advisory lock.
C9_PooledConnectionHoldsNoLock ==
    \A s \in Sessions : ~inUse[s] => \A l \in Locks : adv[s][l] = 0

\* C10: within one process the withLock calls on one lock run their op bodies
\* in the order the calls were made (calls are numbered in that order): while
\* an earlier call has not finished its op, no later call has started its own.
C10_BodiesInCallOrder ==
    \A t, u \in WithLocks :
        (t < u /\ SameKey(t, u) /\ pc[t] \in {"queued", "conn", "acquire", "body"})
            => pc[u] \in {"queued"}

C10_TwoQueuedBehindOne ==
    \E t, u, v \in WithLocks :
        /\ t < u /\ u < v /\ SameKey(t, u) /\ SameKey(u, v)
        /\ pc[t] = "release" /\ queues[proc[t]][lockOf[t]] = <<u, v>>

\* C11: under fair scheduling, with op terminating and every statement going
\* through, every withLock call made starts its op and returns, and every
\* wait call made returns.
C11_BlockingCallsReturn ==
    \A t \in Tasks :
        /\ (op[t] = "withLock" /\ pc[t] \in {"queued", "conn", "acquire"})
               ~> (pc[t] = "body")
        /\ (op[t] \in {"withLock", "wait"} /\ t \in Active)
               ~> (pc[t] = "done")

\* The installed-to-target difference is minor or major: the versions differ
\* in their first or in their second part.
MinorOrMajor(v1, v2) == v1[1] # v2[1] \/ v1[2] # v2[2]

\* C12: updateVectorExtension takes the upgrade routine exactly when the
\* extension is vectors and the installed-to-target difference is minor or
\* major: it then calls no reindex and returns restartRequired = true; in
\* every other case it calls reindex on both indexes, not the upgrade
\* routine, and returns restartRequired = false.
C12_UpgradeOrReindexBoth ==
    [][LET legacy ==
             upd.extension = "vectors" /\ MinorOrMajor(upd.installedVersion, upd.targetVersion)
       IN /\ alterExtension =>
                IF legacy
                  THEN upd'.pc = "upgrade" /\ rx' = rx
                  ELSE upd'.pc = "await"
                       /\ \A i \in Indexes : rx'[i].pc = "table" /\ rx'[i].caller = "update"
          /\ (upd.pc # "done" /\ upd'.pc = "done" /\ upd'.result = "returned") =>
                IF legacy
                  THEN upd.pc = "upgrade" /\ upd.issued \cap Indexes = {}
                       /\ upd'.restartRequired
                  ELSE upd.pc = "await" /\ Indexes \subseteq upd.issued
                       /\ ~upd'.restartRequired]_vars

C12_LegacyMajorUpgradeReturned ==
    /\ upd.pc = "done" /\ upd.result = "returned" /\ upd.restartRequired
    /\ catalog.installedVersion = <<2, 0, 0>>
    /\ \A i \in Indexes : rx[i].calls = 0

\* C13: updateVectorExtension raises when the extension has no installed
\* version or no available version, having changed nothing and issued
\* nothing; otherwise it goes on with the given target, or with the
\* available version when none was given.
C13_MissingVersionRaisesFirst ==
    [][(upd.pc = "idle" /\ upd'.pc # "idle") =>
          \A extension \in Extensions, availableVersion, targetVersion \in Versions \cup {NoVersion} :
              updateVectorExtension(extension, availableVersion, targetVersion) =>
                  IF catalog.installedVersion = NoVersion \/ availableVersion = NoVersion
                    THEN /\ upd'.pc = "done" /\ upd'.result = "error" /\ upd'.issued = {}
                         /\ UNCHANGED <<catalog, tx, rx>>
                    ELSE /\ upd'.pc = "alter"
                         /\ targetVersion = NoVersion => upd'.targetVersion = availableVersion
                         /\ targetVersion # NoVersion => upd'.targetVersion = targetVersion]_vars

C13_RaisedForNotInstalled ==
    /\ upd.pc = "done" /\ upd.result = "error"
    /\ catalog.installedVersion = NoVersion
    /\ tx = NoChanges
    /\ \A i \in Indexes : rx[i].calls = 0

\* C14: a reindex that finds no table for its index returns without raising,
\* having issued no statement and changed nothing.
C14_NoTableNoChange ==
    [][\A i \in Indexes :
          (rx[i].pc = "table" /\ rx'[i].pc # "table" /\ catalog.indexdef[i] = NoIndex) =>
              /\ rx'[i].pc = "done" /\ rx'[i].result = "returned"
              /\ rx'[i].issued = <<>>
              /\ UNCHANGED <<catalog, tx>>]_vars

C14_ReturnedForMissingIndex ==
    \E i \in Indexes :
        /\ rx[i].pc = "done" /\ rx[i].result = "returned" /\ rx[i].issued = <<>>
        /\ rx[i].calls > 0
        /\ catalog.indexdef[i] = NoIndex

\* The statements of reindex in the order they are issued.
ReindexOrder == <<"drop", "widen", "narrow", "create">>

\* C15: reindex issues drop, widen, narrow, create in this order; the drop is
\* committed at once, while widen, narrow and create change nothing that is
\* committed until all three went through: when one of them fails the
\* column has the type it had, the index is still dropped and no new one
\* exists.
C15_DropOutsideRetypeAllOrNothing ==
    [][\A i \in Indexes :
          /\ rx'[i].issued = SubSeq(ReindexOrder, 1, Len(rx'[i].issued))
          /\ dropIndex(i) => catalog'.indexdef[i] = NoIndex
          /\ (widen(i) \/ narrow(i)) => catalog' = catalog
          /\ (statementFails(i) /\ rx[i].pc # "drop") =>
                /\ catalog'.column[i] = catalog.column[i]
                /\ catalog.column[i].dim = rx[i].dimSize
                /\ catalog'.indexdef[i] = NoIndex
                /\ i \notin tx'.retyped]_vars

C15_CreateFailedAfterRetype ==
    \E i \in Indexes :
        /\ rx[i].pc = "done" /\ rx[i].result = "error"
        /\ rx[i].issued = <<"drop", "widen", "narrow", "create">>
        /\ catalog.indexdef[i] = NoIndex
        /\ catalog.column[i] = VectorType("", EmbeddingDim)
        /\ i \notin tx.retyped

\* The access method whose keyword marks an index of extension ext.
MethodOf(ext) ==
    CASE ext = "vector" -> "hnsw"
      [] ext = "vectorchord" -> "vchordrq"
      [] ext = "vectors" -> "vectors"

\* The definition of index i, in whatever case it is written, has USING
\* followed by the access method of extension ext.
UsesMethodOf(ext, i) ==
    LET def == catalog.indexdef[i]
    IN \E k \in 1..(Len(def) - 1) :
          /\ LowerWord(def[k]) = "using"
          /\ LowerWord(def[k + 1]) = MethodOf(ext)

\* C16: shouldReindex returns one boolean per name asked for, in the order
\* asked: true exactly when the index has no definition or its definition
\* does not have, in whatever case, the keyword of the active extension.
C16_FlagsMissingOrForeignIndexes ==
    [][\A names \in NameLists :
          shouldReindex(names) =>
              /\ Len(sr') = Len(names)
              /\ \A k \in DOMAIN names :
                    sr'[k] <=> (\/ catalog.indexdef[names[k]] = NoIndex
                                \/ ~UsesMethodOf(vectorExtension, names[k]))]_vars

C16_FlaggedThenNotFlagged ==
    /\ sr = <<TRUE, FALSE>>
    /\ catalog.indexdef["clip_index"] # NoIndex
    /\ catalog.indexdef["face_index"] # NoIndex

\* C17: once runMigrations has returned or raised, the connection of its
\* DataSource is closed.
C17_ConnectionDisposed == mig.pc = "done" => ~mig.open

\* The reindex call on i that updateVectorExtension made has committed its
\* retyped column and its new index.
Committed(i) ==
    /\ rx[i].caller = "update"
    /\ rx[i].pc = "done" /\ rx[i].result = "returned"
    /\ rx[i].issued = ReindexOrder

\* C18: once updateVectorExtension has raised after ALTER EXTENSION and the
\* start of its reindex calls, the installed version is the previous one and
\* neither reindex call has committed a retyped column or a new index.
C18_UpdateAllOrNothing ==
    (upd.pc = "done" /\ upd.result = "error" /\ \E i \in Indexes : rx[i].caller = "update") =>
        /\ catalog.installedVersion = InstalledAtStart
        /\ \A i \in Indexes : ~Committed(i)

\* C19: when reindex(i) returns without raising, shouldReindex([i]) called
\* next returns [false].
C19_ReindexRepairsDrift ==
    [][\A i \in Indexes :
          (rx[i].pc # "done" /\ rx'[i].pc = "done" /\ rx'[i].result = "returned") =>
              Answer(<<i>>)' = <<FALSE>>]_vars

\* C20: a withLock or wait on lock l that the op body of a withLock on l
\* made in its own process and awaits is never let in: in every state it is
\* queued, and the outer call is in its op body with the in-process mutex
\* and the advisory lock of l held.  A call the op body makes on another
\* lock does run (the witness).
C20_NestedSameLockNeverProceeds ==
    \A t \in Tasks :
        (awaits[t] # NoTask /\ lockOf[awaits[t]] = lockOf[t]) =>
            /\ pc[awaits[t]] = "queued"
            /\ pc[t] = "body"
            /\ isBusy(proc[t], lockOf[t])
            /\ adv[Sess(t)][lockOf[t]] > 0

C20_NestedBlockedAndNestedRunning ==
    \E t, u, v, w \in Tasks :
        /\ awaits[t] = u /\ lockOf[u] = lockOf[t] /\ pc[u] = "queued"
        /\ awaits[v] = w /\ lockOf[w] # lockOf[v] /\ pc[w] = "body"

\* C21: when the acquire statement of a withLock fails, op is not run and the
\* release is sent next, on the same connection; when that call then leaves,
\* it raises, its connection is back in the pool and the in-process mutex is
\* free or handed to the next call queued for the lock, which is started.
C21_FailedAcquireCleansUp ==
    [][\A t \in Tasks :
          /\ (pc[t] = "acquire" /\ pc'[t] # "acquire" /\ pc'[t] # "body") =>
                /\ pc'[t] = "release" /\ res'[t] = "acquireError"
                /\ conn'[t] = conn[t] /\ inUse'[Sess(t)]
          /\ res'[t] = "acquireError" => pc'[t] = "release"
          /\ (pc[t] = "release" /\ res[t] = "acquireError" /\ pc'[t] = "done") =>
                /\ last' \in {"acquireError", "releaseError"}
                /\ ~inUse'[Sess(t)]
                /\ LET q == queues[proc[t]][lockOf[t]]
                   IN IF q = <<>>
                        THEN ~busy'[proc[t]][lockOf[t]]
                        ELSE pc'[Head(q)] = Started(op[Head(q)])]_vars

C21_NextWithLockRunsAfterFailedAcquire ==
    /\ last = "acquireError"
    /\ pc[1] = "done" /\ pc[2] = "body" /\ pc[3] = "idle"
    /\ op[2] = "withLock" /\ proc[2] = "A" /\ lockOf[2] = "Migrations"
    /\ \A s \in Sessions, l \in Locks : adv[s][l] > 0 => (s = Sess(2) /\ l = lockOf[2])

====
